---- MODULE Spec2Model ----
(***************************************************************************)
(* BillGen receipt tracker: the record store held by Index, the staged     *)
(* upload list of ReceiptUpload, the filter/sort engine of ReceiptTable,   *)
(* the CSV export of Index.handleExport and the aggregation of Dashboard.  *)
(*                                                                         *)
(* Encodings.  A JS string that the code inspects character by character   *)
(* (file names, search terms, amount inputs, CSV text) is a sequence of    *)
(* one-character strings; vendor and category names are kept as atoms and  *)
(* spelled out by Chars.  A Date is an instant counted in whole hours      *)
(* since 1970-01-01T00:00Z; tz is the local zone's offset from UTC in      *)
(* hours.  A date string 'YYYY-MM-DD' is the triple <<y, m, d>>.  An       *)
(* amount is the integer c of cents produced by Math.round in              *)
(* generateMockReceipt; the number the code holds is the double nearest    *)
(* c/100.  A confidence is likewise the integer of hundredths that         *)
(* Math.round leaves, computed in double arithmetic as the code does.      *)
(***************************************************************************)
EXTENDS Integers, Sequences, FiniteSets, TLC

VARIABLES
  receipts,        \* Index: useState<Receipt[]>([])
  isProcessing,    \* Index: useState(false)
  activeTab,       \* Index: useState('upload')
  pending,         \* handleFileUpload calls waiting on their 2000 ms timer
  files,           \* ReceiptUpload: useState<File[]>([])
  searchTerm,      \* ReceiptTable state
  categoryFilter,
  dateFilter,
  sortField,
  sortDirection,
  amountMin,
  amountMax,
  view,            \* ReceiptTable: the memoized filteredAndSortedReceipts
  evalAt,          \* the clock reading of the evaluation that produced view
  toasts,          \* notices raised by the last handler
  csvOut,          \* CSV text handed to the download by the last handler
  stats,           \* Dashboard: the memoized stats
  statsAt,         \* the clock reading of the evaluation that produced stats
  now,             \* the clock, in hours since the epoch
  tz               \* local time zone offset, hours east of UTC

tableVars == <<searchTerm, categoryFilter, dateFilter, sortField, sortDirection,
               amountMin, amountMax>>
vars == <<receipts, isProcessing, activeTab, pending, files, searchTerm,
          categoryFilter, dateFilter, sortField, sortDirection, amountMin,
          amountMax, view, evalAt, stats, statsAt, toasts, csvOut, now, tz>>

----------------------------------------------------------------------------
(* Bounds of the model *)

MaxReceipts == 2
MaxBatch == 2
MaxTicks == 1
MaxViewRecs == 2
MaxStatRecs == 4

----------------------------------------------------------------------------
(* Strings *)

Chars(s) ==
  CASE s = "Walmart" -> <<"W", "a", "l", "m", "a", "r", "t">>
    [] s = "Target" -> <<"T", "a", "r", "g", "e", "t">>
    [] s = "Amazon" -> <<"A", "m", "a", "z", "o", "n">>
    [] s = "Costco" -> <<"C", "o", "s", "t", "c", "o">>
    [] s = "Home Depot" -> <<"H", "o", "m", "e", " ", "D", "e", "p", "o", "t">>
    [] s = "Starbucks" -> <<"S", "t", "a", "r", "b", "u", "c", "k", "s">>
    [] s = "McDonald's" -> <<"M", "c", "D", "o", "n", "a", "l", "d", "'", "s">>
    [] s = "Shell" -> <<"S", "h", "e", "l", "l">>
    [] s = "Verizon" -> <<"V", "e", "r", "i", "z", "o", "n">>
    [] s = "AT&T" -> <<"A", "T", "&", "T">>
    [] s = "Netflix" -> <<"N", "e", "t", "f", "l", "i", "x">>
    [] s = "Spotify" -> <<"S", "p", "o", "t", "i", "f", "y">>
    [] s = "Best Buy" -> <<"B", "e", "s", "t", " ", "B", "u", "y">>
    [] s = "CVS Pharmacy" -> <<"C", "V", "S", " ", "P", "h", "a", "r", "m", "a", "c", "y">>
    [] s = "Whole Foods" -> <<"W", "h", "o", "l", "e", " ", "F", "o", "o", "d", "s">>
    [] s = "Safeway" -> <<"S", "a", "f", "e", "w", "a", "y">>
    [] s = "Kroger" -> <<"K", "r", "o", "g", "e", "r">>
    [] s = "groceries" -> <<"g", "r", "o", "c", "e", "r", "i", "e", "s">>
    [] s = "utilities" -> <<"u", "t", "i", "l", "i", "t", "i", "e", "s">>
    [] s = "internet" -> <<"i", "n", "t", "e", "r", "n", "e", "t">>
    [] s = "dining" -> <<"d", "i", "n", "i", "n", "g">>
    [] s = "transportation" -> <<"t", "r", "a", "n", "s", "p", "o", "r", "t", "a", "t", "i", "o", "n">>
    [] s = "shopping" -> <<"s", "h", "o", "p", "p", "i", "n", "g">>
    [] s = "healthcare" -> <<"h", "e", "a", "l", "t", "h", "c", "a", "r", "e">>
    [] s = "entertainment" -> <<"e", "n", "t", "e", "r", "t", "a", "i", "n", "m", "e", "n", "t">>
    [] s = "education" -> <<"e", "d", "u", "c", "a", "t", "i", "o", "n">>
    [] s = "other" -> <<"o", "t", "h", "e", "r">>
    [] s = "all" -> <<"a", "l", "l">>
    [] s = "" -> <<>>

Letters ==
  << <<"A", "a">>, <<"B", "b">>, <<"C", "c">>, <<"D", "d">>, <<"E", "e">>, <<"F", "f">>,
     <<"G", "g">>, <<"H", "h">>, <<"I", "i">>, <<"J", "j">>, <<"K", "k">>, <<"L", "l">>,
     <<"M", "m">>, <<"N", "n">>, <<"O", "o">>, <<"P", "p">>, <<"Q", "q">>, <<"R", "r">>,
     <<"S", "s">>, <<"T", "t">>, <<"U", "u">>, <<"V", "v">>, <<"W", "w">>, <<"X", "x">>,
     <<"Y", "y">>, <<"Z", "z">> >>

UpperCase == {Letters[i][1] : i \in 1..26}
LowerCase == {Letters[i][2] : i \in 1..26}

\* the lower-case form of every upper-case letter
LowerOf == [c \in UpperCase |-> Letters[CHOOSE i \in 1..26 : Letters[i][1] = c][2]]

toLowerCase(str) ==
  [i \in 1..Len(str) |-> IF str[i] \in UpperCase THEN LowerOf[str[i]] ELSE str[i]]

\* String.prototype.includes
includes(str, sub) ==
  \E k \in 0..(Len(str) - Len(sub)) :
    \A i \in 1..Len(sub) : str[k + i] = sub[i]

RECURSIVE join(_, _)
\* Array.prototype.join on an array of strings
join(parts, sep) ==
  IF Len(parts) = 0 THEN <<>>
  ELSE IF Len(parts) = 1 THEN parts[1]
  ELSE parts[1] \o sep \o join(Tail(parts), sep)

Digit(n) ==
  CASE n = 0 -> "0" [] n = 1 -> "1" [] n = 2 -> "2" [] n = 3 -> "3" [] n = 4 -> "4"
    [] n = 5 -> "5" [] n = 6 -> "6" [] n = 7 -> "7" [] n = 8 -> "8" [] n = 9 -> "9"

DigitValue(c) == CHOOSE n \in 0..9 : Digit(n) = c

IsDigit(c) == \E n \in 0..9 : Digit(n) = c

RECURSIVE IntToString(_)
IntToString(n) ==
  IF n < 10 THEN <<Digit(n)>> ELSE IntToString(n \div 10) \o <<Digit(n % 10)>>

\* String.prototype.padStart(width, '0') as toISOString applies it
PadZero(str, width) ==
  [i \in 1..(IF Len(str) < width THEN width - Len(str) ELSE 0) |-> "0"] \o str

\* Number.prototype.toFixed(2) of the double nearest h/100, h >= 0
toFixed2(h) == IntToString(h \div 100) \o <<".">> \o PadZero(IntToString(h % 100), 2)

----------------------------------------------------------------------------
(* Dates *)

\* days from 1970-01-01 to the civil date y-m-d (proleptic Gregorian)
DaysFromCivil(y, m, d) ==
  LET yy  == IF m <= 2 THEN y - 1 ELSE y
      era == yy \div 400
      yoe == yy - era * 400
      mp  == IF m > 2 THEN m - 3 ELSE m + 9
      doy == (153 * mp + 2) \div 5 + d - 1
      doe == yoe * 365 + yoe \div 4 - yoe \div 100 + doy
  IN era * 146097 + doe - 719468

\* the civil date <<y, m, d>> of a day number
CivilFromDays(z) ==
  LET zz  == z + 719468
      era == zz \div 146097
      doe == zz - era * 146097
      yoe == (doe - doe \div 1460 + doe \div 36524 - doe \div 146096) \div 365
      doy == doe - (365 * yoe + yoe \div 4 - yoe \div 100)
      mp  == (5 * doy + 2) \div 153
      d   == doy - (153 * mp + 2) \div 5 + 1
      m   == IF mp < 10 THEN mp + 3 ELSE mp - 9
      y   == yoe + era * 400 + (IF m <= 2 THEN 1 ELSE 0)
  IN <<y, m, d>>

\* new Date('YYYY-MM-DD'): a date-only string is read as midnight UTC
DateParse(date) == DaysFromCivil(date[1], date[2], date[3]) * 24

\* the local calendar fields of an instant t in the zone zone
getFullYear(t, zone) == CivilFromDays((t + zone) \div 24)[1]
getMonth(t, zone) == CivilFromDays((t + zone) \div 24)[2] - 1
getDate(t, zone) == CivilFromDays((t + zone) \div 24)[3]

\* date.setDate(day): the local day of month replaced, overflow carried, the
\* local time of day kept
setDate(t, day, zone) ==
  LET local == t + zone
      civil == CivilFromDays(local \div 24)
  IN (DaysFromCivil(civil[1], civil[2], 1) + day - 1) * 24 + (local % 24) - zone

\* date.toISOString().split('T')[0]: the UTC calendar date
toISODate(t) == CivilFromDays(t \div 24)

\* the characters of a date string
DateChars(date) ==
  PadZero(IntToString(date[1]), 4) \o <<"-">> \o PadZero(IntToString(date[2]), 2)
    \o <<"-">> \o PadZero(IntToString(date[3]), 2)

----------------------------------------------------------------------------
(* types/receipt.ts *)

receiptCategories ==
  {"groceries", "utilities", "internet", "dining", "transportation", "shopping",
   "healthcare", "entertainment", "education", "other"}

vendors ==
  <<"Walmart", "Target", "Amazon", "Costco", "Home Depot", "Starbucks",
    "McDonald's", "Shell", "Verizon", "AT&T", "Netflix", "Spotify",
    "Best Buy", "CVS Pharmacy", "Whole Foods", "Safeway", "Kroger">>

getRandomCategory(vendor) ==
  CASE vendor = "Walmart" -> "groceries"
    [] vendor = "Target" -> "shopping"
    [] vendor = "Amazon" -> "shopping"
    [] vendor = "Costco" -> "groceries"
    [] vendor = "Home Depot" -> "other"
    [] vendor = "Starbucks" -> "dining"
    [] vendor = "McDonald's" -> "dining"
    [] vendor = "Shell" -> "transportation"
    [] vendor = "Verizon" -> "utilities"
    [] vendor = "AT&T" -> "utilities"
    [] vendor = "Netflix" -> "entertainment"
    [] vendor = "Spotify" -> "entertainment"
    [] vendor = "Best Buy" -> "shopping"
    [] vendor = "CVS Pharmacy" -> "healthcare"
    [] vendor = "Whole Foods" -> "groceries"
    [] vendor = "Safeway" -> "groceries"
    [] vendor = "Kroger" -> "groceries"
    [] OTHER -> "other"

\* A value of Math.random() is the double nearest k / RandDen, 0 <= k < RandDen.
RandDen == 1000

PowersOfTwo == [k \in 0..20 |-> 2^k]

\* The arithmetic of the confidence expression is done on doubles.  A double
\* is the pair [m, e] of value m * 2^e, m a natural number of at most 53 binary
\* digits (2^53 itself included) held as BigLimbs digits of BigBits bits, least
\* significant first; "\o <<>>" leaves a vector of digits as a tuple.
BigBits == 14

BigLimbs == 8

BigBase == 16384

BigZero == [i \in 1..BigLimbs |-> 0]

BigOfInt(n) ==
  [i \in 1..BigLimbs |-> IF i = 1 THEN n % BigBase
                         ELSE IF i = 2 THEN (n \div BigBase) % BigBase
                         ELSE IF i = 3 THEN n \div (BigBase * BigBase) ELSE 0]

BigToInt(N) == N[1] + BigBase * N[2]

\* the digits of a vector of digit values, carries propagated
BigCarry(ls) ==
  LET c[i \in 0..BigLimbs] == IF i = 0 THEN 0 ELSE (ls[i] + c[i - 1]) \div BigBase
  IN [i \in 1..BigLimbs |-> (ls[i] + c[i - 1]) % BigBase] \o <<>>

\* binary digit k of N
BigBit(N, k) ==
  IF k < 0 \/ k >= BigBits * BigLimbs THEN 0
  ELSE (N[k \div BigBits + 1] \div PowersOfTwo[k % BigBits]) % 2

\* the number of binary digits of N
BigBitLen(N) ==
  IF N = BigZero THEN 0
  ELSE LET j == CHOOSE i \in 1..BigLimbs :
                  N[i] # 0 /\ \A k \in (i + 1)..BigLimbs : N[k] = 0
       IN BigBits * (j - 1)
            + Cardinality({k \in 0..(BigBits - 1) : PowersOfTwo[k] <= N[j]})

\* digit i of N, 0 outside the digits kept
BigLimb(N, i) == IF i < 1 \/ i > BigLimbs THEN 0 ELSE N[i]

\* floor(N / 2^s) for s >= 0, N * 2^(-s) for s < 0
BigShift(N, s) ==
  LET a == s \div BigBits
      b == s % BigBits
  IN [i \in 1..BigLimbs |->
        BigLimb(N, i + a) \div PowersOfTwo[b]
          + (BigLimb(N, i + a + 1) % PowersOfTwo[b]) * PowersOfTwo[BigBits - b]] \o <<>>

\* N has a binary digit 1 below digit s
BigLowBits(N, s) ==
  /\ s > 0
  /\ \/ \E i \in 1..(s \div BigBits) : N[i] # 0
     \/ BigLimb(N, s \div BigBits + 1) % PowersOfTwo[s % BigBits] # 0

\* a * b for a, b below 2^56
BigMul(a, b) ==
  BigCarry([k \in 1..BigLimbs |->
              a[1] * BigLimb(b, k) + a[2] * BigLimb(b, k - 1)
                + a[3] * BigLimb(b, k - 2) + a[4] * BigLimb(b, k - 3)] \o <<>>)

\* quotient and remainder of N by a small positive integer
BigDivSmall(N, n) ==
  LET rem[i \in 1..(BigLimbs + 1)] ==
        IF i = BigLimbs + 1 THEN 0 ELSE (rem[i + 1] * BigBase + N[i]) % n
  IN [ q |-> [i \in 1..BigLimbs |-> (rem[i + 1] * BigBase + N[i]) \div n] \o <<>>,
       r |-> rem[1] ]

\* the double nearest to (N + f) * 2^e, ties to the even significand, where
\* 0 <= f < 1 and more = (f > 0); N has more than 53 digits when more holds
DblRound(N, e, more) ==
  LET len   == BigBitLen(N)
      s     == IF len > 53 THEN len - 53 ELSE 0
      q     == BigShift(N, s)
      half  == s > 0 /\ BigBit(N, s - 1) = 1
      lower == more \/ BigLowBits(N, s - 1)
      odd   == BigBit(N, s) = 1
  IN [ m |-> IF half /\ (lower \/ odd)
               THEN BigCarry([q EXCEPT ![1] = q[1] + 1]) ELSE q,
       e |-> e + s ]

\* digits kept of a quotient before it is rounded
DblGuard == 70

\* the double a decimal literal or a fraction n / d is, 0 <= n < 2^20, 0 < d < 2^17
DblOfRatio(n, d) ==
  LET qr == BigDivSmall(BigShift(BigOfInt(n), -DblGuard), d)
  IN DblRound(qr.q, -DblGuard, qr.r # 0)

\* a * b
DblMul(a, b) == DblRound(BigMul(a.m, b.m), a.e + b.e, FALSE)

\* a + b
DblAdd(a, b) ==
  IF a.m = BigZero THEN b
  ELSE IF b.m = BigZero THEN a
  ELSE LET e  == IF a.e < b.e THEN a.e ELSE b.e
           am == BigShift(a.m, e - a.e)
           bm == BigShift(b.m, e - b.e)
       IN DblRound(BigCarry([i \in 1..BigLimbs |-> am[i] + bm[i]] \o <<>>), e, FALSE)

\* Math.round(a) for 0 <= a < 2^26: floor(a + 0.5)
MathRound(a) ==
  IF a.e >= 0 THEN BigToInt(BigShift(a.m, -a.e))
  ELSE BigToInt(BigShift(a.m, -a.e)) + BigBit(a.m, -a.e - 1)

\* the literals of generateMockReceipt
Dbl0_3 == DblOfRatio(3, 10)

Dbl0_7 == DblOfRatio(7, 10)

Dbl5 == DblOfRatio(5, 1)

Dbl100 == DblOfRatio(100, 1)

Dbl200 == DblOfRatio(200, 1)

Dbl365 == DblOfRatio(365, 1)

\* Math.floor(a) for 0 <= a < 2^26
MathFloor(a) == BigToInt(BigShift(a.m, -a.e))

\* vendors.length
vendorsLength == DblOfRatio(Len(vendors), 1)

\* the doubles Math.random() returns, by numerator
MathRandom == [k \in 0..(RandDen - 1) |-> DblOfRatio(k, RandDen)]

\* Math.floor(Math.random() * vendors.length), by numerator
vendorIndex == [k \in 0..(RandDen - 1) |-> MathFloor(DblMul(MathRandom[k], vendorsLength))]

\* Math.round((Math.random() * 200 + 5) * 100), the cents of the amount, by
\* numerator
amountCents ==
  [k \in 0..(RandDen - 1) |->
     MathRound(DblMul(DblAdd(DblMul(MathRandom[k], Dbl200), Dbl5), Dbl100))]

\* Math.floor(Math.random() * 365), by numerator
daysAgo == [k \in 0..(RandDen - 1) |-> MathFloor(DblMul(MathRandom[k], Dbl365))]

\* Math.round((Math.random() * 0.3 + 0.7) * 100), the hundredths of the
\* confidence, by numerator
confidenceHundredths ==
  [k \in 0..(RandDen - 1) |->
     MathRound(DblMul(DblAdd(DblMul(MathRandom[k], Dbl0_3), Dbl0_7), Dbl100))]

\* rnd holds the five values Math.random() returns, in call order: rnd.v, rnd.a
\* and rnd.d as numerators over RandDen, rnd.id as the token that
\* toString(36).substring(7) leaves of the fourth (it may be empty or repeat),
\* rnd.c as a numerator over RandDen.
generateMockReceipt(file, rnd, t, zone) ==
  LET randomVendor  == vendors[vendorIndex[rnd.v] + 1]
      randomAmount  == amountCents[rnd.a]
      randomDaysAgo == daysAgo[rnd.d]
      date          == setDate(t, getDate(t, zone) - randomDaysAgo, zone)
  IN [ id         |-> rnd.id,
       vendor     |-> randomVendor,
       date       |-> toISODate(date),
       amount     |-> randomAmount,
       category   |-> getRandomCategory(randomVendor),
       fileName   |-> file.name,
       fileType   |-> file.type,
       confidence |-> confidenceHundredths[rnd.c] ]

----------------------------------------------------------------------------
(* ReceiptUpload *)

allowedTypes == {"image/jpeg", "image/png", "application/pdf", "text/plain"}

SizeLimit == 10 * 1024 * 1024

NoToast == "none"

\* validateFile with the size test off by one: a file of exactly the limit is
\* turned away
validateFileExclusive(file) ==
  IF file.type \notin allowedTypes
    THEN [keep |-> FALSE, toast |-> "Invalid file type"]
  ELSE IF file.size >= SizeLimit
    THEN [keep |-> FALSE, toast |-> "File too large"]
  ELSE [keep |-> TRUE, toast |-> NoToast]

\* the filter callback of handleFiles: whether the file is kept, and the notice
\* raised when it is not
validateFile(file) ==
  IF file.type \notin allowedTypes
    THEN [keep |-> FALSE, toast |-> "Invalid file type"]
  ELSE IF file.size > SizeLimit
    THEN [keep |-> FALSE, toast |-> "File too large"]
  ELSE [keep |-> TRUE, toast |-> NoToast]

RECURSIVE handleFiles(_)
\* newFiles.filter(...): the files kept, and the notices raised on the way
handleFiles(newFiles) ==
  IF newFiles = <<>> THEN [validFiles |-> <<>>, toasts |-> <<>>]
  ELSE LET v    == validateFile(Head(newFiles))
           rest == handleFiles(Tail(newFiles))
       IN [ validFiles |-> (IF v.keep THEN <<Head(newFiles)>> ELSE <<>>)
                             \o rest.validFiles,
            toasts     |-> (IF v.keep THEN <<>>
                            ELSE <<[title |-> v.toast, about |-> Head(newFiles).name]>>)
                             \o rest.toasts ]

\* prev.filter((_, i) => i !== index), index counted from 0
removeFile(prev, index) ==
  SubSeq(prev, 1, index) \o SubSeq(prev, index + 2, Len(prev))

----------------------------------------------------------------------------
(* ReceiptTable: the filter/sort engine *)

\* primary collation weight of a character: spaces and punctuation sort before
\* digits, digits before letters, and letters regardless of case
CollationWeight(c) ==
  CASE c = " " -> 1
    [] c = "'" -> 2
    [] c = "&" -> 3
    [] IsDigit(c) -> 10 + DigitValue(c)
    [] c \in UpperCase -> 20 + (CHOOSE i \in 1..26 : Letters[i][1] = c)
    [] c \in LowerCase -> 20 + (CHOOSE i \in 1..26 : Letters[i][2] = c)
    [] OTHER -> 4

RECURSIVE CompareKeys(_, _)
\* lexicographic comparison of two sequences of integers: -1, 0 or 1
CompareKeys(k1, k2) ==
  IF k1 = <<>> /\ k2 = <<>> THEN 0
  ELSE IF k1 = <<>> THEN -1
  ELSE IF k2 = <<>> THEN 1
  ELSE IF Head(k1) < Head(k2) THEN -1
  ELSE IF Head(k1) > Head(k2) THEN 1
  ELSE CompareKeys(Tail(k1), Tail(k2))

\* the names the comparator meets: vendor and category names
Names == {vendors[i] : i \in 1..Len(vendors)} \cup receiptCategories

\* the collation keys of a name: its primary weights, and its case pattern
PrimaryKey ==
  [s \in Names |-> [i \in 1..Len(Chars(s)) |-> CollationWeight(Chars(s)[i])]]
CaseKey ==
  [s \in Names |-> [i \in 1..Len(Chars(s)) |-> IF Chars(s)[i] \in UpperCase THEN 1 ELSE 0]]

\* String.prototype.localeCompare: by primary weights first, and between strings
\* equal but for case, lower case first
localeCompare(s1, s2) ==
  LET primary == CompareKeys(PrimaryKey[s1], PrimaryKey[s2])
  IN IF primary # 0 THEN primary ELSE CompareKeys(CaseKey[s1], CaseKey[s2])

\* parseFloat of a string of digits with at most two decimals, in hundredths
parseFloat(str) ==
  LET dot  == IF \E i \in 1..Len(str) : str[i] = "."
                THEN CHOOSE i \in 1..Len(str) : str[i] = "." ELSE Len(str) + 1
      int  == SubSeq(str, 1, dot - 1)
      frac == SubSeq(str, dot + 1, Len(str))
      value[i \in 0..Len(int)] ==
        IF i = 0 THEN 0 ELSE value[i - 1] * 10 + DigitValue(int[i])
      hundredths ==
        (IF Len(frac) >= 1 THEN 10 * DigitValue(frac[1]) ELSE 0)
          + (IF Len(frac) >= 2 THEN DigitValue(frac[2]) ELSE 0)
  IN value[Len(int)] * 100 + hundredths

\* the callback of receipts.filter; st is the table's state, t the clock read by
\* new Date(), zone the local zone
matchesFilters(receipt, st, t, zone) ==
  LET searchFields  == toLowerCase(join(<<Chars(receipt.vendor), Chars(receipt.category)>>, <<" ">>))
      matchesSearch == st.searchTerm = <<>> \/ includes(searchFields, toLowerCase(st.searchTerm))
      matchesCategory == st.categoryFilter = "all" \/ receipt.category = st.categoryFilter
      receiptDate   == DateParse(receipt.date)
      matchesDate   ==
        IF st.dateFilter = "last30" THEN receiptDate >= t - 30 * 24
        ELSE IF st.dateFilter = "last90" THEN receiptDate >= t - 90 * 24
        ELSE IF st.dateFilter = "thisYear"
          THEN getFullYear(receiptDate, zone) = getFullYear(t, zone)
        ELSE TRUE
      matchesAmount ==
        /\ (st.amountMin = <<>> \/ receipt.amount >= parseFloat(st.amountMin))
        /\ (st.amountMax = <<>> \/ receipt.amount <= parseFloat(st.amountMax))
  IN matchesSearch /\ matchesCategory /\ matchesDate /\ matchesAmount

\* the comparator without its last line: the direction ignored
compareReceiptsAscending(a, b, field, direction) ==
  CASE field = "date" -> DateParse(a.date) - DateParse(b.date)
    [] field = "amount" -> a.amount - b.amount
    [] field = "vendor" -> localeCompare(a.vendor, b.vendor)
    [] field = "category" -> localeCompare(a.category, b.category)
    [] OTHER -> 0

\* the comparator handed to filtered.sort
compareReceipts(a, b, field, direction) ==
  LET comparison ==
        CASE field = "date" -> DateParse(a.date) - DateParse(b.date)
          [] field = "amount" -> a.amount - b.amount
          [] field = "vendor" -> localeCompare(a.vendor, b.vendor)
          [] field = "category" -> localeCompare(a.category, b.category)
          [] OTHER -> 0
  IN IF direction = "asc" THEN comparison ELSE -comparison

RECURSIVE sortInsert(_, _, _, _)
\* x placed behind the last element that does not compare greater than it
sortInsert(sorted, x, field, direction) ==
  IF sorted = <<>> THEN <<x>>
  ELSE IF compareReceipts(sorted[Len(sorted)], x, field, direction) <= 0
    THEN Append(sorted, x)
  ELSE Append(sortInsert(SubSeq(sorted, 1, Len(sorted) - 1), x, field, direction),
              sorted[Len(sorted)])

RECURSIVE arraySort(_, _, _)
\* Array.prototype.sort with the comparator above: a stable sort
arraySort(arr, field, direction) ==
  IF arr = <<>> THEN <<>>
  ELSE sortInsert(arraySort(SubSeq(arr, 1, Len(arr) - 1), field, direction),
                  arr[Len(arr)], field, direction)

\* the sort applied to the receipts array itself
filteredAndSortedInPlace(rs, st, t, zone) ==
  LET filtered == SelectSeq(rs, LAMBDA receipt : matchesFilters(receipt, st, t, zone))
  IN [ filtered |-> arraySort(filtered, st.sortField, st.sortDirection),
       receipts |-> arraySort(rs, st.sortField, st.sortDirection) ]

\* The body of the useMemo: filter builds a new array, sort orders that array in
\* place.  The value is the view together with the receipts array as the call
\* leaves it.
filteredAndSortedReceipts(rs, st, t, zone) ==
  LET filtered == SelectSeq(rs, LAMBDA receipt : matchesFilters(receipt, st, t, zone))
  IN [ filtered |-> arraySort(filtered, st.sortField, st.sortDirection),
       receipts |-> rs ]

\* handleSort without the reset of the direction on a new key
handleSortKeepDirection(st, field) ==
  IF st.sortField = field
    THEN [st EXCEPT !.sortDirection = IF st.sortDirection = "asc" THEN "desc" ELSE "asc"]
  ELSE [st EXCEPT !.sortField = field]

\* handleSort: the sort state after a click on a column header
handleSort(st, field) ==
  IF st.sortField = field
    THEN [st EXCEPT !.sortDirection = IF st.sortDirection = "asc" THEN "desc" ELSE "asc"]
  ELSE [st EXCEPT !.sortField = field, !.sortDirection = "asc"]

----------------------------------------------------------------------------
(* Index.handleExport *)

NoCsv == <<>>

headers == <<"Date", "Vendor", "Amount", "Category", "File", "Confidence">>

HeaderChars(h) ==
  CASE h = "Date" -> <<"D", "a", "t", "e">>
    [] h = "Vendor" -> <<"V", "e", "n", "d", "o", "r">>
    [] h = "Amount" -> <<"A", "m", "o", "u", "n", "t">>
    [] h = "Category" -> <<"C", "a", "t", "e", "g", "o", "r", "y">>
    [] h = "File" -> <<"F", "i", "l", "e">>
    [] h = "Confidence" -> <<"C", "o", "n", "f", "i", "d", "e", "n", "c", "e">>

\* the template literal `"${str}"`
Quoted(str) == <<"\"">> \o str \o <<"\"">>

\* one data row: the six fields joined by commas
csvRow(receipt) ==
  join(<< DateChars(receipt.date),
          Quoted(Chars(receipt.vendor)),
          toFixed2(receipt.amount),
          Chars(receipt.category),
          Quoted(receipt.fileName),
          toFixed2(receipt.confidence) >>, <<",">>)

\* handleExport without its guard on the empty set
handleExportUnguarded(rs) ==
  [ toast |-> "Export successful",
    csv   |-> join(<<join([i \in 1..Len(headers) |-> HeaderChars(headers[i])], <<",">>)>>
                     \o [i \in 1..Len(rs) |-> csvRow(rs[i])],
                   <<"\n">>) ]

\* handleExport on the record set rs: the notice raised and the CSV text built
handleExport(rs) ==
  IF Len(rs) = 0
    THEN [toast |-> "No data to export", csv |-> NoCsv]
  ELSE [ toast |-> "Export successful",
         csv   |-> join(<<join([i \in 1..Len(headers) |-> HeaderChars(headers[i])], <<",">>)>>
                          \o [i \in 1..Len(rs) |-> csvRow(rs[i])],
                        <<"\n">>) ]

----------------------------------------------------------------------------
(* Numbers.  The amounts the aggregation adds and divides are doubles.  A     *)
(* double v that the aggregation meets is zero or lies in [4, 2^27) and is a  *)
(* multiple of 2^-50; it is held as the integer v * 2^50, written in Limbs    *)
(* digits of base Base, lowest digit first.                                   *)

Base == 1048576

Limbs == 4

Zero == [i \in 1..Limbs |-> 0]

\* the digits of a vector of digit values, carries propagated
Carry(ls) ==
  LET c[i \in 0..Limbs] == IF i = 0 THEN 0 ELSE (ls[i] + c[i - 1]) \div Base
  IN [i \in 1..Limbs |-> (ls[i] + c[i - 1]) % Base]

\* the number of binary digits of N
BitLen(N) ==
  IF N = Zero THEN 0
  ELSE LET j == CHOOSE i \in 1..Limbs : N[i] # 0 /\ \A k \in (i + 1)..Limbs : N[k] = 0
       IN 20 * (j - 1) + Cardinality({k \in 0..19 : PowersOfTwo[k] <= N[j]})

\* quotient and remainder of N by a small positive integer
DivSmall(N, n) ==
  LET rem[i \in 1..(Limbs + 1)] ==
        IF i = Limbs + 1 THEN 0 ELSE (rem[i + 1] * Base + N[i]) % n
  IN [ q |-> [i \in 1..Limbs |-> (rem[i + 1] * Base + N[i]) \div n],
       r |-> rem[1] ]

\* the double nearest to N + r/d, ties to the even significand: a double has 53
\* binary digits
RoundToDouble(N, r, d) ==
  LET s   == IF BitLen(N) > 53 THEN BitLen(N) - 53 ELSE 0
      low == N[1] % PowersOfTwo[s]
      odd == (N[1] \div PowersOfTwo[s]) % 2 = 1
      up  == IF s = 0
               THEN 2 * r > d \/ (2 * r = d /\ odd)
             ELSE \/ low > PowersOfTwo[s - 1]
                  \/ low = PowersOfTwo[s - 1] /\ (r > 0 \/ odd)
  IN Carry([N EXCEPT ![1] = N[1] - low + (IF up THEN PowersOfTwo[s] ELSE 0)])

\* the double an amount of c hundredths is: parseFloat of the two-decimal text
NumberOfCents(c) ==
  LET qr == DivSmall([i \in 1..Limbs |-> IF i = 3 THEN c * 1024 ELSE 0], 100)
  IN RoundToDouble(qr.q, qr.r, 100)

\* a + b
NumAdd(a, b) == RoundToDouble(Carry([i \in 1..Limbs |-> a[i] + b[i]]), 0, 1)

\* a / n for a small positive integer n
NumDivInt(a, n) ==
  LET qr == DivSmall(a, n)
  IN RoundToDouble(qr.q, qr.r, n)

----------------------------------------------------------------------------
(* Dashboard *)

EmptyStats ==
  [ totalReceipts |-> 0, totalAmount |-> Zero, averageAmount |-> Zero,
    medianAmount |-> Zero, topVendor |-> "", currentMonthSpend |-> Zero,
    lastMonthSpend |-> Zero, categoryBreakdown |-> <<>>, monthlyTrend |-> <<>> ]

\* reduce((sum, receipt) => sum + receipt.amount, 0) without its first record
sumAmountsSkipFirst(rs) ==
  LET sum[i \in 0..Len(rs)] ==
        IF i <= 1 THEN Zero ELSE NumAdd(sum[i - 1], NumberOfCents(rs[i].amount))
  IN sum[Len(rs)]

\* reduce((sum, receipt) => sum + receipt.amount, 0)
sumAmounts(rs) ==
  LET sum[i \in 0..Len(rs)] ==
        IF i = 0 THEN Zero ELSE NumAdd(sum[i - 1], NumberOfCents(rs[i].amount))
  IN sum[Len(rs)]

\* [...receipts].sort(...) left out: the amounts in the order of the record set
unsortedAmounts(rs) == rs

RECURSIVE sortedAmounts(_)
\* [...receipts].sort((a, b) => a.amount - b.amount): ascending, stable
sortedAmounts(rs) ==
  IF rs = <<>> THEN <<>>
  ELSE LET sorted == sortedAmounts(SubSeq(rs, 1, Len(rs) - 1))
           x      == rs[Len(rs)]
           k      == Cardinality({i \in DOMAIN sorted : sorted[i].amount <= x.amount})
       IN SubSeq(sorted, 1, k) \o <<x>> \o SubSeq(sorted, k + 1, Len(sorted))

\* every key kept as often as it is met
KeysRepeated(ks) == ks

\* the keys of an object that is filled with the keys ks one after the other, in
\* insertion order
KeysInOrder(ks) ==
  LET keys[i \in 0..Len(ks)] ==
        IF i = 0 THEN <<>>
        ELSE IF \E j \in 1..(i - 1) : ks[j] = ks[i]
          THEN keys[i - 1]
        ELSE Append(keys[i - 1], ks[i])
  IN keys[Len(ks)]

\* topVendor with the entries taken from the last one back: of several vendors
\* with the highest count the one met last
topVendorLastMet(rs) ==
  LET keys     == KeysInOrder([i \in 1..Len(rs) |-> rs[i].vendor])
      count(v) == Cardinality({i \in DOMAIN rs : rs[i].vendor = v})
  IN IF keys = <<>> THEN ""
     ELSE keys[CHOOSE i \in DOMAIN keys :
                 /\ \A j \in DOMAIN keys : count(keys[j]) <= count(keys[i])
                 /\ \A j \in (i + 1)..Len(keys) : count(keys[j]) < count(keys[i])]

\* Object.entries(vendorCounts).sort(([,a], [,b]) => b - a)[0]?.[0] || ''
topVendorOf(rs) ==
  LET keys     == KeysInOrder([i \in 1..Len(rs) |-> rs[i].vendor])
      count(v) == Cardinality({i \in DOMAIN rs : rs[i].vendor = v})
  IN IF keys = <<>> THEN ""
     ELSE keys[CHOOSE i \in DOMAIN keys :
                 /\ \A j \in DOMAIN keys : count(keys[j]) <= count(keys[i])
                 /\ \A j \in 1..(i - 1) : count(keys[j]) < count(keys[i])]

\* the spend of the records whose date falls, in local time, in month m of year y
monthSpend(rs, m, y, zone) ==
  LET InMonth(r) == /\ getMonth(DateParse(r.date), zone) = m
                    /\ getFullYear(DateParse(r.date), zone) = y
  IN sumAmounts(SelectSeq(rs, InMonth))

MonthShort ==
  << <<"J", "a", "n">>, <<"F", "e", "b">>, <<"M", "a", "r">>, <<"A", "p", "r">>,
     <<"M", "a", "y">>, <<"J", "u", "n">>, <<"J", "u", "l">>, <<"A", "u", "g">>,
     <<"S", "e", "p">>, <<"O", "c", "t">>, <<"N", "o", "v">>, <<"D", "e", "c">> >>

\* toLocaleDateString('en-US', { month: 'short', year: 'numeric' })
monthStr(m, y) == MonthShort[m + 1] \o <<" ">> \o IntToString(y)

\* the stats memo of Dashboard on the record set rs, evaluated at instant t in
\* the zone
DashboardStats(rs, t, zone) ==
  IF Len(rs) = 0 THEN EmptyStats
  ELSE
    LET totalAmount   == sumAmounts(rs)
        averageAmount == NumDivInt(totalAmount, Len(rs))
        sorted        == sortedAmounts(rs)
        medianAmount  ==
          IF Len(rs) % 2 = 0
            THEN NumDivInt(NumAdd(NumberOfCents(sorted[Len(rs) \div 2].amount),
                                  NumberOfCents(sorted[Len(rs) \div 2 + 1].amount)), 2)
          ELSE NumberOfCents(sorted[Len(rs) \div 2 + 1].amount)
        currentMonth  == getMonth(t, zone)
        currentYear   == getFullYear(t, zone)
        lastMonth     == IF currentMonth = 0 THEN 11 ELSE currentMonth - 1
        lastMonthYear == IF currentMonth = 0 THEN currentYear - 1 ELSE currentYear
        categories    == KeysInOrder([i \in 1..Len(rs) |-> rs[i].category])
        inCategory(c) == LET Is(r) == r.category = c IN SelectSeq(rs, Is)
        targetMonth(i) == (currentMonth - i) % 12
        targetYear(i)  == currentYear + ((currentMonth - i) \div 12)
    IN [ totalReceipts     |-> Len(rs),
         totalAmount       |-> totalAmount,
         averageAmount     |-> averageAmount,
         medianAmount      |-> medianAmount,
         topVendor         |-> topVendorOf(rs),
         currentMonthSpend |-> monthSpend(rs, currentMonth, currentYear, zone),
         lastMonthSpend    |-> monthSpend(rs, lastMonth, lastMonthYear, zone),
         categoryBreakdown |->
           [k \in 1..Len(categories) |->
              [category |-> categories[k], amount |-> sumAmounts(inCategory(categories[k]))]],
         monthlyTrend      |->
           [k \in 1..6 |->
              [ month  |-> monthStr(targetMonth(6 - k), targetYear(6 - k)),
                amount |-> monthSpend(rs, targetMonth(6 - k), targetYear(6 - k), zone) ]] ]

----------------------------------------------------------------------------
(* Inputs of the model *)

FPng == [name |-> <<"r", ".", "p", "n", "g">>, type |-> "image/png", size |-> SizeLimit]
FTxt == [name |-> <<"a", "\n", "b">>, type |-> "text/plain", size |-> 1]
FZip == [name |-> <<"z">>, type |-> "application/zip", size |-> 1]
FOver == [name |-> <<"k">>, type |-> "image/jpeg", size |-> SizeLimit + 1]

FileSet == {FPng, FTxt, FZip, FOver}

\* accepted files whose names hold a comma, a double quote, a line break
FComma == [name |-> <<"a", ",", "b">>, type |-> "application/pdf", size |-> 1]
FQuote == [name |-> <<"a", "\"", "b">>, type |-> "image/jpeg", size |-> 1]
ExportFiles == {FPng, FTxt, FComma, FQuote}

\* the batches a file dialog or a drop can deliver
Batches == UNION {[1..n -> FileSet] : n \in 1..MaxBatch}

\* Amazon, $5.00, 30 days ago, confidence 0.85
Draw1 == [v |-> 150, a |-> 0, d |-> 83, id |-> "k3x9", c |-> 500]
\* Starbucks, $78.40, today, confidence 1.00, the same id token
Draw2 == [v |-> 300, a |-> 367, d |-> 0, id |-> "k3x9", c |-> 999]
\* AT&T, $204.80, 90 days ago, confidence 0.70, an empty id token
Draw3 == [v |-> 550, a |-> 999, d |-> 247, id |-> "", c |-> 0]

\* $12.80 at Spotify, 40 days ago
Draw4 == [v |-> 700, a |-> 39, d |-> 110, id |-> "q7", c |-> 250]

RandomDraws == {Draw1, Draw2}
StatDraws == {Draw1, Draw2, Draw4}
ViewDraws == {Draw1, Draw2, Draw3}

\* 2025-01-31T00:00Z
StartTimes == {DaysFromCivil(2025, 1, 31) * 24}
TimeZones == {-5, 0}
LastTime == DaysFromCivil(2025, 1, 31) * 24 + MaxTicks

Tabs == {"upload", "records", "dashboard"}
SortFields == {"date", "amount", "vendor", "category"}
DateFilters == {"all", "last30", "last90", "thisYear"}
SearchTerms == {<<>>, <<"N", " ", "s">>}
CategoryChoices == {"all", "dining"}
AmountInputs == {<<>>, <<"7", "8", ".", "4">>}

----------------------------------------------------------------------------
(* State *)

TableInitial ==
  [ searchTerm |-> <<>>, categoryFilter |-> "all", dateFilter |-> "all",
    sortField |-> "date", sortDirection |-> "desc",
    amountMin |-> <<>>, amountMax |-> <<>> ]

TableState ==
  [ searchTerm |-> searchTerm, categoryFilter |-> categoryFilter,
    dateFilter |-> dateFilter, sortField |-> sortField,
    sortDirection |-> sortDirection, amountMin |-> amountMin,
    amountMax |-> amountMax ]

\* ReceiptTable is rendered inside the records tab, and only for a non-empty set
TableMounted(tab, rs) == tab = "records" /\ Len(rs) > 0

\* ReceiptUpload is rendered inside the upload tab
UploadMounted(tab) == tab = "upload"

\* Dashboard is rendered inside the dashboard tab, and only for a non-empty set
DashboardMounted(tab, rs) == tab = "dashboard" /\ Len(rs) > 0

\* the stats variable while no Dashboard is mounted
NoStats == [mounted |-> FALSE]

\* the export control is the table's button
ExportOffered == TableMounted(activeTab, receipts)

\* The render that follows a handler: tab2 and rs2 are the tab and the record set
\* the handler leaves, st2 the table state if the table stays mounted.  A table
\* that mounts starts from its initial state; the memo is recomputed when one of
\* its dependencies changed.
Render(tab2, rs2, st2) ==
  LET was == TableMounted(activeTab, receipts)
      st  == IF TableMounted(tab2, rs2) /\ was THEN st2 ELSE TableInitial
      hit == was /\ rs2 = receipts /\ st = TableState
      res == filteredAndSortedReceipts(rs2, st, now, tz)
  IN /\ searchTerm' = st.searchTerm
     /\ categoryFilter' = st.categoryFilter
     /\ dateFilter' = st.dateFilter
     /\ sortField' = st.sortField
     /\ sortDirection' = st.sortDirection
     /\ amountMin' = st.amountMin
     /\ amountMax' = st.amountMax
     /\ IF ~TableMounted(tab2, rs2)
          THEN view' = <<>> /\ evalAt' = 0 /\ receipts' = rs2
        ELSE IF hit
          THEN view' = view /\ evalAt' = evalAt /\ receipts' = rs2
        ELSE view' = res.filtered /\ evalAt' = now /\ receipts' = res.receipts
     /\ IF ~DashboardMounted(tab2, rs2)
          THEN stats' = NoStats /\ statsAt' = 0
        ELSE IF DashboardMounted(activeTab, receipts) /\ rs2 = receipts
          THEN stats' = stats /\ statsAt' = statsAt
        ELSE stats' = DashboardStats(rs2, now, tz) /\ statsAt' = now

InFlight ==
  LET sum[i \in 0..Len(pending)] == IF i = 0 THEN 0 ELSE sum[i - 1] + Len(pending[i])
  IN sum[Len(pending)]

Init ==
  /\ receipts = <<>>
  /\ isProcessing = FALSE
  /\ activeTab = "upload"
  /\ pending = <<>>
  /\ files = <<>>
  /\ searchTerm = TableInitial.searchTerm
  /\ categoryFilter = TableInitial.categoryFilter
  /\ dateFilter = TableInitial.dateFilter
  /\ sortField = TableInitial.sortField
  /\ sortDirection = TableInitial.sortDirection
  /\ amountMin = TableInitial.amountMin
  /\ amountMax = TableInitial.amountMax
  /\ view = <<>>
  /\ evalAt = 0
  /\ stats = NoStats
  /\ statsAt = 0
  /\ toasts = <<>>
  /\ csvOut = NoCsv
  /\ now \in StartTimes
  /\ tz \in TimeZones

----------------------------------------------------------------------------
(* Operations *)

\* a tab trigger, or one of the buttons that call setActiveTab
SetActiveTab(tab) ==
  /\ tab # activeTab
  /\ activeTab' = tab
  /\ files' = <<>>
  /\ Render(tab, receipts, TableState)
  /\ toasts' = <<>>
  /\ csvOut' = NoCsv
  /\ UNCHANGED <<isProcessing, pending, now, tz>>

\* a drop zone that takes pointer events whatever the flag
dropzoneAlwaysActive(processing) == TRUE

\* the drop zone carries pointer-events-none while a batch is processing; the
\* file input inside it is hidden and is reached through the zone's onClick only
dropzoneActive(processing) == ~processing

\* the file input's onChange or a drop on the drop zone
HandleFiles(newFiles) ==
  /\ UploadMounted(activeTab)
  /\ dropzoneActive(isProcessing)
  /\ LET r == handleFiles(newFiles)
     IN /\ Len(receipts) + InFlight + Len(files) + Len(r.validFiles) <= MaxReceipts
        /\ files' = files \o r.validFiles
        /\ toasts' = r.toasts
  /\ csvOut' = NoCsv
  /\ UNCHANGED <<receipts, isProcessing, activeTab, pending, tableVars, view, evalAt,
                 stats, statsAt, now, tz>>

\* the X button of a staged file
RemoveFile(index) ==
  /\ UploadMounted(activeTab)
  /\ index \in 0..(Len(files) - 1)
  /\ files' = removeFile(files, index)
  /\ toasts' = <<>>
  /\ csvOut' = NoCsv
  /\ UNCHANGED <<receipts, isProcessing, activeTab, pending, tableVars, view, evalAt,
                 stats, statsAt, now, tz>>

\* the Process button, rendered while files are staged and disabled while a
\* batch is processing; handleSubmit calls onUpload = handleFileUpload, which
\* raises the flag and waits on its timer
HandleSubmit ==
  /\ UploadMounted(activeTab)
  /\ Len(files) > 0
  /\ ~isProcessing
  /\ IF Len(files) = 0
       THEN /\ toasts' = <<[title |-> "No files selected", about |-> <<>>]>>
            /\ UNCHANGED <<isProcessing, pending, files>>
       ELSE /\ isProcessing' = TRUE
            /\ pending' = Append(pending, files)
            /\ files' = <<>>
            /\ toasts' = <<>>
  /\ csvOut' = NoCsv
  /\ UNCHANGED <<receipts, activeTab, tableVars, view, evalAt, stats, statsAt, now, tz>>

\* the updater with its operands swapped
prependReceipts(prev, newReceipts) == newReceipts \o prev

\* a batch whose records are lost
discardReceipts(prev, newReceipts) == prev

\* a batch of which only the first record is kept
appendFirstOnly(prev, newReceipts) == prev \o SubSeq(newReceipts, 1, 1)

\* the updater handed to setReceipts: prev => [...prev, ...newReceipts]
appendReceipts(prev, newReceipts) == prev \o newReceipts

\* the try block of handleFileUpload throws only where file.name or file.type
\* is read of a value that is no File; the timer's promise is never rejected
mockGenerationThrows(batch) ==
  \E i \in DOMAIN batch : ~({"name", "type"} \subseteq DOMAIN batch[i])

\* the timer of the oldest waiting handleFileUpload fires: the records are
\* generated and appended, the success notice raised and the records tab
\* selected (try), or the failure notice raised (catch); the flag is lowered
\* on either path (finally)
ProcessingDone(rnds) ==
  /\ pending # <<>>
  /\ DOMAIN rnds = 1..Len(Head(pending))
  /\ LET batch == Head(pending)
     IN IF ~mockGenerationThrows(batch)
          THEN LET newReceipts == [i \in 1..Len(batch) |->
                                     generateMockReceipt(batch[i], rnds[i], now, tz)]
               IN /\ Render("records", appendReceipts(receipts, newReceipts), TableState)
                  /\ toasts' = <<[title |-> "Files processed successfully!",
                                  about |-> <<>>]>>
                  /\ activeTab' = "records"
          ELSE /\ Render(activeTab, receipts, TableState)
               /\ toasts' = <<[title |-> "Processing failed", about |-> <<>>]>>
               /\ activeTab' = activeTab
  /\ isProcessing' = FALSE
  /\ pending' = Tail(pending)
  /\ files' = <<>>
  /\ csvOut' = NoCsv
  /\ UNCHANGED <<now, tz>>

\* an export of what the table shows
exportedRecordsShown(rs, shown) == shown

\* the array handleExport serializes: the container's receipts, whatever the
\* table shows
exportedRecords(rs, shown) == rs

\* the Export CSV button of the table
HandleExport ==
  /\ ExportOffered
  /\ LET r == handleExport(exportedRecords(receipts, view))
     IN /\ toasts' = <<[title |-> r.toast, about |-> <<>>]>>
        /\ csvOut' = r.csv
  /\ UNCHANGED <<receipts, isProcessing, activeTab, pending, files, tableVars, view,
                 evalAt, stats, statsAt, now, tz>>

\* a change of one of the table's controls, followed by the render
TableChange(st) ==
  /\ TableMounted(activeTab, receipts)
  /\ st # TableState
  /\ Render(activeTab, receipts, st)
  /\ toasts' = <<>>
  /\ csvOut' = NoCsv
  /\ UNCHANGED <<isProcessing, activeTab, pending, files, now, tz>>

SetSearchTerm(value) == TableChange([TableState EXCEPT !.searchTerm = value])
SetCategoryFilter(value) == TableChange([TableState EXCEPT !.categoryFilter = value])
SetDateFilter(value) == TableChange([TableState EXCEPT !.dateFilter = value])
SetAmountMin(value) == TableChange([TableState EXCEPT !.amountMin = value])
SetAmountMax(value) == TableChange([TableState EXCEPT !.amountMax = value])
HandleSort(field) == TableChange(handleSort(TableState, field))

\* an hour passes
Tick ==
  /\ now < LastTime
  /\ now' = now + 1
  /\ UNCHANGED <<receipts, isProcessing, activeTab, pending, files, tableVars,
                 view, evalAt, stats, statsAt, toasts, csvOut, tz>>

\* The whole session.  The date and amount controls and the clock are exercised
\* in SpecView.
Next ==
  \/ \E tab \in Tabs : SetActiveTab(tab)
  \/ \E newFiles \in Batches : HandleFiles(newFiles)
  \/ \E index \in 0..(MaxReceipts - 1) : RemoveFile(index)
  \/ HandleSubmit
  \/ \E n \in 1..MaxReceipts : \E rnds \in [1..n -> RandomDraws] : ProcessingDone(rnds)
  \/ HandleExport
  \/ \E value \in SearchTerms : SetSearchTerm(value)
  \/ \E value \in CategoryChoices : SetCategoryFilter(value)
  \/ \E field \in SortFields : HandleSort(field)

Spec == Init /\ [][Next]_vars

\* The upload surface alone: selections, removals, submits, the processing of the
\* submitted batches with one fixed draw, and the tabs.
NextUpload ==
  \/ \E tab \in Tabs : SetActiveTab(tab)
  \/ \E newFiles \in Batches : HandleFiles(newFiles)
  \/ \E index \in 0..(MaxReceipts - 1) : RemoveFile(index)
  \/ HandleSubmit
  \/ \E n \in 1..MaxReceipts : \E rnds \in [1..n -> {Draw1}] : ProcessingDone(rnds)

SpecUpload == Init /\ [][NextUpload]_vars

\* The timer of handleFileUpload is never cancelled, so the oldest waiting batch
\* is processed in the end.  ProcessingDone is the only step that shortens
\* pending, and it can be taken whenever a batch waits.
TimerFires == pending # <<>> /\ pending' = Tail(pending)

SpecUploadLive == Init /\ [][NextUpload]_vars /\ WF_pending(TimerFires)

\* The table alone, from the moment a processed batch has mounted it.  SpecView
\* exercises the filter controls and the clock under the initial sort state,
\* SpecSort the column headers together with the search and category controls.
InitView ==
  \E t0 \in StartTimes, zone \in TimeZones, n \in 1..MaxViewRecs :
    \E rnds \in [1..n -> ViewDraws] :
      LET rs == [i \in 1..n |-> generateMockReceipt(FPng, rnds[i], t0, zone)]
      IN /\ receipts = rs
         /\ isProcessing = FALSE
         /\ activeTab = "records"
         /\ pending = <<>>
         /\ files = <<>>
         /\ searchTerm = TableInitial.searchTerm
         /\ categoryFilter = TableInitial.categoryFilter
         /\ dateFilter = TableInitial.dateFilter
         /\ sortField = TableInitial.sortField
         /\ sortDirection = TableInitial.sortDirection
         /\ amountMin = TableInitial.amountMin
         /\ amountMax = TableInitial.amountMax
         /\ view = filteredAndSortedReceipts(rs, TableInitial, t0, zone).filtered
         /\ evalAt = t0
         /\ stats = NoStats
         /\ statsAt = 0
         /\ toasts = <<[title |-> "Files processed successfully!", about |-> <<>>]>>
         /\ csvOut = NoCsv
         /\ now = t0
         /\ tz = zone

NextView ==
  \/ \E value \in SearchTerms : SetSearchTerm(value)
  \/ \E value \in CategoryChoices : SetCategoryFilter(value)
  \/ \E value \in DateFilters : SetDateFilter(value)
  \/ \E value \in AmountInputs : SetAmountMin(value)
  \/ \E value \in AmountInputs : SetAmountMax(value)
  \/ Tick

SpecView == InitView /\ [][NextView]_vars

NextSort ==
  \/ \E field \in SortFields : HandleSort(field)
  \/ \E value \in SearchTerms : SetSearchTerm(value)
  \/ \E value \in CategoryChoices : SetCategoryFilter(value)

SpecSort == InitView /\ [][NextSort]_vars

\* The export alone: a processed batch of accepted files of any names, then the
\* Export CSV button, the tabs and the category control.
InitExport ==
  \E t0 \in StartTimes, zone \in TimeZones, n \in 1..MaxViewRecs :
    \E fs \in [1..n -> ExportFiles] :
      LET rs == [i \in 1..n |-> generateMockReceipt(fs[i], Draw2, t0, zone)]
      IN /\ receipts = rs
         /\ isProcessing = FALSE
         /\ activeTab = "records"
         /\ pending = <<>>
         /\ files = <<>>
         /\ searchTerm = TableInitial.searchTerm
         /\ categoryFilter = TableInitial.categoryFilter
         /\ dateFilter = TableInitial.dateFilter
         /\ sortField = TableInitial.sortField
         /\ sortDirection = TableInitial.sortDirection
         /\ amountMin = TableInitial.amountMin
         /\ amountMax = TableInitial.amountMax
         /\ view = filteredAndSortedReceipts(rs, TableInitial, t0, zone).filtered
         /\ evalAt = t0
         /\ stats = NoStats
         /\ statsAt = 0
         /\ toasts = <<[title |-> "Files processed successfully!", about |-> <<>>]>>
         /\ csvOut = NoCsv
         /\ now = t0
         /\ tz = zone

NextExport ==
  \/ HandleExport
  \/ \E tab \in Tabs : SetActiveTab(tab)
  \/ \E value \in CategoryChoices : SetCategoryFilter(value)

SpecExport == InitExport /\ [][NextExport]_vars

\* The dashboard alone: the record set of a session, the dashboard tab selected,
\* then the tabs and the clock.
InitStats ==
  \E t0 \in StartTimes, zone \in TimeZones, n \in 0..MaxStatRecs :
    \E rnds \in [1..n -> StatDraws] :
      LET rs == [i \in 1..n |-> generateMockReceipt(FPng, rnds[i], t0, zone)]
      IN /\ receipts = rs
         /\ isProcessing = FALSE
         /\ activeTab = "dashboard"
         /\ pending = <<>>
         /\ files = <<>>
         /\ searchTerm = TableInitial.searchTerm
         /\ categoryFilter = TableInitial.categoryFilter
         /\ dateFilter = TableInitial.dateFilter
         /\ sortField = TableInitial.sortField
         /\ sortDirection = TableInitial.sortDirection
         /\ amountMin = TableInitial.amountMin
         /\ amountMax = TableInitial.amountMax
         /\ view = <<>>
         /\ evalAt = 0
         /\ stats = IF n = 0 THEN NoStats ELSE DashboardStats(rs, t0, zone)
         /\ statsAt = IF n = 0 THEN 0 ELSE t0
         /\ toasts = <<>>
         /\ csvOut = NoCsv
         /\ now = t0
         /\ tz = zone

NextStats ==
  \/ \E tab \in Tabs : SetActiveTab(tab)
  \/ Tick

SpecStats == InitStats /\ [][NextStats]_vars

----------------------------------------------------------------------------
(* Properties *)

IsPrefix(s1, s2) == Len(s1) <= Len(s2) /\ SubSeq(s2, 1, Len(s1)) = s1

CountOf(seq, c) == Cardinality({i \in DOMAIN seq : seq[i] = c})

\* C1: the record store starts empty and every step leaves the record sequence
\* it held as a prefix of the one it holds afterwards: nothing is removed,
\* reordered or modified, whatever the operation.
C1_AppendOnly == (receipts = <<>>) /\ [][IsPrefix(receipts, receipts')]_vars

\* two batches processed, the table re-sorted and an export done
C1_Witness == Len(receipts) >= 2 /\ sortField # "date" /\ csvOut # NoCsv

\* a file is valid when its type is JPEG, PNG, PDF or plain text and its size is at
\* most 10 MB
ClaimValid(file) ==
  /\ file.type \in {"image/jpeg", "image/png", "application/pdf", "text/plain"}
  /\ file.size <= 10485760

\* C2: a selection of a batch stages exactly the valid files of the batch, in
\* their order, behind the files already staged, and raises one notice for each
\* other file, in order; the staged list holds only valid files.
C2_PerFileValidation ==
  /\ [](\A i \in DOMAIN files : ClaimValid(files[i]))
  /\ [][\A b \in Batches :
          (~isProcessing' /\ receipts' = receipts /\ activeTab' = activeTab
             /\ HandleFiles(b)) =>
            LET rejected == SelectSeq(b, LAMBDA f : ~ClaimValid(f))
            IN /\ files' = files \o SelectSeq(b, ClaimValid)
               /\ Len(toasts') = Len(rejected)
               /\ \A i \in DOMAIN rejected :
                    /\ toasts'[i].about = rejected[i].name
                    /\ toasts'[i].title \in {"Invalid file type", "File too large"}]_vars

\* a valid file staged by a selection that also turned a file away
C2_Witness == activeTab = "upload" /\ Len(files) >= 1 /\ Len(toasts) >= 1

Flip(direction) == IF direction = "asc" THEN "desc" ELSE "asc"

\* C5: a click on the active sort key keeps the key and flips the direction, a
\* click on another key selects it with the direction ascending, and two clicks
\* on the active key give back the sort state they started from.
C5_SortToggle ==
  /\ [](TableMounted(activeTab, receipts) =>
          LET once  == handleSort(TableState, sortField)
              twice == handleSort(once, once.sortField)
          IN twice.sortField = sortField /\ twice.sortDirection = sortDirection)
  /\ [][\A f \in SortFields :
          HandleSort(f) =>
            /\ sortField' = f
            /\ sortDirection' = IF f = sortField THEN Flip(sortDirection) ELSE "asc"]_vars

\* a key other than the initial one, clicked twice
C5_Witness == TableMounted(activeTab, receipts) /\ sortField = "vendor" /\ sortDirection = "desc"

\* C7: while the record set is empty the export control is not offered, no CSV
\* has been produced, and handleExport on the set raises the error notice and
\* builds no CSV.
C7_EmptyExportAborted ==
  Len(receipts) = 0 =>
    /\ ~ExportOffered
    /\ csvOut = NoCsv
    /\ handleExport(receipts).csv = NoCsv
    /\ handleExport(receipts).toast = "No data to export"

\* the records tab selected while the record set is empty
C7_Witness == Len(receipts) = 0 /\ activeTab = "records"

RECURSIVE SplitLines(_)
\* the lines of a text: the pieces between its line breaks
SplitLines(text) ==
  IF \A i \in DOMAIN text : text[i] # "\n" THEN <<text>>
  ELSE LET k == CHOOSE i \in DOMAIN text :
                  text[i] = "\n" /\ \A j \in 1..(i - 1) : text[j] # "\n"
       IN <<SubSeq(text, 1, k - 1)>> \o SplitLines(SubSeq(text, k + 1, Len(text)))

HeaderLine ==
  <<"D", "a", "t", "e", ",", "V", "e", "n", "d", "o", "r", ",", "A", "m", "o", "u",
    "n", "t", ",", "C", "a", "t", "e", "g", "o", "r", "y", ",", "F", "i", "l", "e",
    ",", "C", "o", "n", "f", "i", "d", "e", "n", "c", "e">>

RECURSIVE RowsText(_)
\* every record's row, each behind a line break, in the order of rs
RowsText(rs) ==
  IF rs = <<>> THEN <<>> ELSE <<"\n">> \o csvRow(Head(rs)) \o RowsText(Tail(rs))

LineBreaksInNames(rs) ==
  LET sum[i \in 0..Len(rs)] ==
        IF i = 0 THEN 0 ELSE sum[i - 1] + CountOf(rs[i].fileName, "\n")
  IN sum[Len(rs)]

\* C8 as stated: an export of n records is n + 1 lines, the header and then the row
\* of the i-th record of the store on line i + 1.
C8_Original ==
  csvOut # NoCsv =>
    LET lines == SplitLines(csvOut)
    IN /\ Len(lines) = Len(receipts) + 1
       /\ lines[1] = HeaderLine
       /\ \A i \in 1..Len(receipts) : lines[i + 1] = csvRow(receipts[i])

\* C8, amended: an export of n records is the header row followed by the n rows
\* of the records in store order, each behind one line break, whatever the table
\* shows; that is n + 1 lines and one more for every line break inside a file
\* name.
C8_ExportRows ==
  csvOut # NoCsv =>
    /\ Len(receipts) > 0
    /\ csvOut = HeaderLine \o RowsText(receipts)
    /\ Len(SplitLines(csvOut)) = Len(receipts) + 1 + LineBreaksInNames(receipts)

\* an export of two records while the table shows them filtered or reordered
C8_Witness == csvOut # NoCsv /\ Len(receipts) >= 2 /\ view # receipts

Occurrences(seq, x) == Cardinality({i \in DOMAIN seq : seq[i] = x})

Range(seq) == {seq[i] : i \in DOMAIN seq}

\* the predicates of the table's filter as the data model states them: the query
\* against the text of vendor and category, the category, the date window of the
\* record's calendar date, the inclusive amount range
ClaimMatches(r, st, t, zone) ==
  /\ \/ st.searchTerm = <<>>
     \/ includes(toLowerCase(Chars(r.vendor) \o <<" ">> \o Chars(r.category)),
                 toLowerCase(st.searchTerm))
  /\ st.categoryFilter \in {"all", r.category}
  /\ CASE st.dateFilter = "last30" -> DateParse(r.date) >= t - 30 * 24
       [] st.dateFilter = "last90" -> DateParse(r.date) >= t - 90 * 24
       [] st.dateFilter = "thisYear" -> r.date[1] = getFullYear(t, zone)
       [] OTHER -> TRUE
  /\ st.amountMin = <<>> \/ r.amount >= parseFloat(st.amountMin)
  /\ st.amountMax = <<>> \/ r.amount <= parseFloat(st.amountMax)

\* C3: the view holds every record that satisfies all active predicates as often
\* as the record set holds it, and no other record; with no filter active it is a
\* permutation of the record set, and with the category filter set to c every
\* record shown has category c.
C3_FilteredView ==
  TableMounted(activeTab, receipts) =>
    /\ \A r \in Range(receipts) \cup Range(view) :
         Occurrences(view, r) =
           IF ClaimMatches(r, TableState, evalAt, tz) THEN Occurrences(receipts, r) ELSE 0
    /\ ([TableState EXCEPT !.sortField = "date", !.sortDirection = "desc"] = TableInitial
          => \A r \in Range(receipts) : Occurrences(view, r) = Occurrences(receipts, r))
    /\ (categoryFilter # "all" => \A i \in DOMAIN view : view[i].category = categoryFilter)

\* the vendor and category names in the order an English collation gives them
NameOrder ==
  <<"Amazon", "AT&T", "Best Buy", "Costco", "CVS Pharmacy", "dining", "education",
    "entertainment", "groceries", "healthcare", "Home Depot", "internet", "Kroger",
    "McDonald's", "Netflix", "other", "Safeway", "Shell", "shopping", "Spotify",
    "Starbucks", "Target", "transportation", "utilities", "Verizon", "Walmart",
    "Whole Foods">>

NameRank(name) == CHOOSE i \in DOMAIN NameOrder : NameOrder[i] = name

\* a is not greater than b under the ordering of the sort key
KeyLeq(a, b, field) ==
  CASE field = "date" ->
         \/ a.date[1] < b.date[1]
         \/ a.date[1] = b.date[1] /\ a.date[2] < b.date[2]
         \/ a.date[1] = b.date[1] /\ a.date[2] = b.date[2] /\ a.date[3] <= b.date[3]
    [] field = "amount" -> a.amount <= b.amount
    [] field = "vendor" -> NameRank(a.vendor) <= NameRank(b.vendor)
    [] field = "category" -> NameRank(a.category) <= NameRank(b.category)

\* C4: the table starts sorted by date, descending, and of every two adjacent
\* records of the view the first is not greater than the second under the sort
\* key when the direction is ascending, and not less when it is descending.
C4_SortedView ==
  /\ sortField = "date" /\ sortDirection = "desc"
  /\ [](TableMounted(activeTab, receipts) =>
          \A i \in 1..(Len(view) - 1) :
            IF sortDirection = "asc"
              THEN KeyLeq(view[i], view[i + 1], sortField)
              ELSE KeyLeq(view[i + 1], view[i], sortField))

\* two records of different vendors shown by vendor, descending
C4_Witness ==
  /\ sortField = "vendor" /\ sortDirection = "desc"
  /\ Len(view) >= 2 /\ view[1].vendor # view[2].vendor

\* C6 as stated: the view the table holds is what an evaluation with the same
\* record set, filter state and sort state yields, whenever it is made.
C6_Original ==
  TableMounted(activeTab, receipts) =>
    view = filteredAndSortedReceipts(receipts, TableState, now, tz).filtered

\* C6, amended: the view is a function of the record set, the filter state, the
\* sort state, the clock reading of the evaluation and the local time zone, it is
\* recomputed whenever the record set, the filter state or the sort state
\* changes, and computing it leaves the record set as it was.
C6_PureOfInputsAndClock ==
  /\ [](TableMounted(activeTab, receipts) =>
          view = filteredAndSortedReceipts(receipts, TableState, evalAt, tz).filtered)
  /\ [][receipts' = receipts]_vars

\* the trailing-30-days window active and the clock past the evaluation
C6_Witness ==
  TableMounted(activeTab, receipts) /\ dateFilter = "last30" /\ now > evalAt

RECURSIVE CsvScan(_, _, _, _, _, _)
\* A CSV reader that honours double-quoted fields, from position i of text: mode
\* is "start" at the start of a field, "plain" inside an unquoted field, "quoted"
\* inside a quoted one and "closed" behind a quote met inside a quoted field; a
\* doubled quote inside a quoted field stands for one quote, a comma ends a
\* field and a line break a record only outside quotes.
CsvScan(text, i, mode, field, record, records) ==
  IF i > Len(text)
    THEN Append(records, Append(record, field))
  ELSE LET c == text[i]
       IN CASE mode = "quoted" /\ c = "\"" ->
                 CsvScan(text, i + 1, "closed", field, record, records)
            [] mode = "quoted" /\ c # "\"" ->
                 CsvScan(text, i + 1, "quoted", Append(field, c), record, records)
            [] mode = "closed" /\ c = "\"" ->
                 CsvScan(text, i + 1, "quoted", Append(field, c), record, records)
            [] mode = "start" /\ c = "\"" ->
                 CsvScan(text, i + 1, "quoted", field, record, records)
            [] mode # "quoted" /\ c = "," ->
                 CsvScan(text, i + 1, "start", <<>>, Append(record, field), records)
            [] mode # "quoted" /\ c = "\n" ->
                 CsvScan(text, i + 1, "start", <<>>, <<>>,
                         Append(records, Append(record, field)))
            [] OTHER ->
                 CsvScan(text, i + 1, "plain", Append(field, c), record, records)

CsvRead(text) == CsvScan(text, 1, "start", <<>>, <<>>, <<>>)

\* C9: the row of every exported record reads back, by a CSV reader that honours
\* double-quoted fields, as one row of exactly six fields whose second field is
\* the record's vendor and whose fifth is its file name, also when the file name
\* holds a comma, a double quote or a line break.
C9_QuotedFieldsReadBack ==
  csvOut # NoCsv =>
    \A i \in DOMAIN receipts :
      LET rows == CsvRead(csvRow(receipts[i]))
      IN /\ Len(rows) = 1
         /\ Len(rows[1]) = 6
         /\ rows[1][2] = Chars(receipts[i].vendor)
         /\ rows[1][5] = receipts[i].fileName

\* a * n in doubles
NumMulInt(a, n) == RoundToDouble(Carry([i \in 1..Limbs |-> a[i] * n]), 0, 1)

\* a <= b
NumLeq(a, b) ==
  \/ a = b
  \/ LET j == CHOOSE i \in 1..Limbs : a[i] # b[i] /\ \A k \in (i + 1)..Limbs : a[k] = b[k]
     IN a[j] < b[j]

\* |a - b| <= tol, all three exact
Within(a, b, tol) ==
  /\ NumLeq(a, Carry([i \in 1..Limbs |-> b[i] + tol[i]]))
  /\ NumLeq(b, Carry([i \in 1..Limbs |-> a[i] + tol[i]]))

\* a * n, exact
Times(a, n) == Carry([i \in 1..Limbs |-> a[i] * n])

\* the whole part of a * n / 2^k in the unit of the numbers, for 0 <= k < 60: the
\* relative tolerance n * 2^-k of a.  Two numbers differ by a whole count of
\* units, so they differ by at most a * n * 2^-k exactly when they are Within it.
RelTolerance(a, n, k) ==
  LET N  == Times(a, n)
      lo == k \div 20
      b  == k % 20
      digit(i) == IF i > Limbs THEN 0 ELSE N[i]
  IN [i \in 1..Limbs |->
        digit(i + lo) \div PowersOfTwo[b]
          + (digit(i + lo + 1) % PowersOfTwo[b]) * PowersOfTwo[20 - b]]

RECURSIVE DoubleSum(_)
\* the amounts of rs added up in doubles, in the order of rs
DoubleSum(rs) ==
  IF rs = <<>> THEN Zero
  ELSE NumAdd(DoubleSum(SubSeq(rs, 1, Len(rs) - 1)), NumberOfCents(rs[Len(rs)].amount))

\* the snapshot of the empty record set
ZeroSnapshot(s) ==
  /\ s.totalReceipts = 0 /\ s.totalAmount = Zero /\ s.averageAmount = Zero
  /\ s.medianAmount = Zero /\ s.currentMonthSpend = Zero /\ s.lastMonthSpend = Zero
  /\ s.topVendor = "" /\ s.categoryBreakdown = <<>> /\ s.monthlyTrend = <<>>

\* C10 as stated: the snapshot of a non-empty record set counts the records,
\* totals their amounts, and its average times its count is its total; the
\* snapshot of the empty set is all zero and empty.
C10_Original ==
  /\ DashboardMounted(activeTab, receipts) =>
       /\ stats.totalReceipts = Len(receipts)
       /\ stats.totalAmount = DoubleSum(receipts)
       /\ NumMulInt(stats.averageAmount, stats.totalReceipts) = stats.totalAmount
  /\ ZeroSnapshot(DashboardStats(<<>>, now, tz))

\* C10, amended: the snapshot of a non-empty record set counts the records, its
\* total is the sum of the amounts, added as doubles in record order, and its
\* average times its count, taken exactly or as a double, differs from its total
\* by at most 2^-52 of the total; the snapshot of the empty set is all zero and
\* empty.
C10_TotalsWithinTolerance ==
  /\ DashboardMounted(activeTab, receipts) =>
       /\ stats.totalReceipts = Len(receipts)
       /\ stats.totalAmount = DoubleSum(receipts)
       /\ Within(Times(stats.averageAmount, stats.totalReceipts), stats.totalAmount,
                 RelTolerance(stats.totalAmount, 1, 52))
       /\ Within(NumMulInt(stats.averageAmount, stats.totalReceipts), stats.totalAmount,
                 RelTolerance(stats.totalAmount, 1, 52))
  /\ ZeroSnapshot(DashboardStats(<<>>, now, tz))

\* a dashboard of three records whose average times three is not their total
C10_Witness ==
  /\ DashboardMounted(activeTab, receipts) /\ Len(receipts) = 3
  /\ NumMulInt(stats.averageAmount, 3) # stats.totalAmount

\* the k-th smallest amount of rs, in cents
KthAmount(rs, k) ==
  LET amounts == {rs[i].amount : i \in DOMAIN rs}
  IN CHOOSE c \in amounts :
       /\ Cardinality({i \in DOMAIN rs : rs[i].amount < c}) < k
       /\ Cardinality({i \in DOMAIN rs : rs[i].amount <= c}) >= k

\* C11: the median of a non-empty record set is the middle one of its amounts in
\* ascending order when the count is odd and the mean of the two central ones
\* when it is even, and computing the snapshot leaves the record set as it was.
C11_Median ==
  /\ [](DashboardMounted(activeTab, receipts) =>
          LET n == Len(receipts)
          IN stats.medianAmount =
               IF n % 2 = 1
                 THEN NumberOfCents(KthAmount(receipts, (n + 1) \div 2))
               ELSE NumDivInt(NumAdd(NumberOfCents(KthAmount(receipts, n \div 2)),
                                     NumberOfCents(KthAmount(receipts, n \div 2 + 1))), 2))
  /\ [][receipts' = receipts]_vars

\* a dashboard of an even number of records that are not in ascending order
C11_Witness ==
  /\ DashboardMounted(activeTab, receipts) /\ Len(receipts) = 2
  /\ receipts[1].amount > receipts[2].amount
  /\ stats.medianAmount # NumberOfCents(receipts[1].amount)

\* the number of records of rs from vendor v
VendorCount(rs, v) == Cardinality({i \in DOMAIN rs : rs[i].vendor = v})

\* C12: the top vendor of a non-empty record set is a vendor with the highest
\* number of records, and of several such vendors the one whose first record
\* comes earliest in the record set.
C12_TopVendor ==
  DashboardMounted(activeTab, receipts) =>
    \E i \in DOMAIN receipts :
      /\ stats.topVendor = receipts[i].vendor
      /\ \A j \in DOMAIN receipts :
           VendorCount(receipts, receipts[j].vendor) <= VendorCount(receipts, receipts[i].vendor)
      /\ \A j \in 1..(i - 1) :
           VendorCount(receipts, receipts[j].vendor) < VendorCount(receipts, receipts[i].vendor)

\* two vendors share the highest count and the one met first is reported
C12_Witness ==
  /\ DashboardMounted(activeTab, receipts) /\ Len(receipts) = 3
  /\ receipts[1].vendor # receipts[2].vendor
  /\ receipts[2].vendor # receipts[3].vendor
  /\ receipts[1].vendor # receipts[3].vendor
  /\ stats.topVendor = receipts[1].vendor

\* the records of rs whose transaction date lies in month m (0 to 11) of year y
DatedIn(rs, m, y) ==
  LET InMonth(r) == r.date[2] = m + 1 /\ r.date[1] = y
  IN SelectSeq(rs, InMonth)

\* C13: the current-month spend is the sum of the amounts of exactly the records
\* dated in the calendar month and year of the evaluation, the last-month spend
\* that of the records dated in the calendar month before it, which for January
\* is December of the previous year; for every transaction date, the first and
\* the last day of a month included.
C13_MonthSpends ==
  DashboardMounted(activeTab, receipts) =>
    LET m == getMonth(statsAt, tz)
        y == getFullYear(statsAt, tz)
    IN /\ stats.currentMonthSpend = DoubleSum(DatedIn(receipts, m, y))
       /\ stats.lastMonthSpend =
            DoubleSum(DatedIn(receipts, IF m = 0 THEN 11 ELSE m - 1,
                                        IF m = 0 THEN y - 1 ELSE y))

\* the calendar month i months before month m of year y, as <<month, year>>
MonthsBack(m, y, i) == <<(y * 12 + m - i) % 12, (y * 12 + m - i) \div 12>>

\* C14: the trend of a non-empty record set has six points, for the six calendar
\* months that end with the month of the evaluation, oldest first; each point
\* carries its month and the sum of the amounts of the records dated in it, zero
\* when there are none, and the last two amounts are the last-month and the
\* current-month spend.
C14_MonthlyTrend ==
  DashboardMounted(activeTab, receipts) =>
    LET m == getMonth(statsAt, tz)
        y == getFullYear(statsAt, tz)
        trend == stats.monthlyTrend
    IN /\ Len(trend) = 6
       /\ \A k \in 1..6 :
            LET my == MonthsBack(m, y, 6 - k)
            IN /\ trend[k].month = monthStr(my[1], my[2])
               /\ trend[k].amount = DoubleSum(DatedIn(receipts, my[1], my[2]))
       /\ trend[5].amount = stats.lastMonthSpend
       /\ trend[6].amount = stats.currentMonthSpend

\* the records of rs of category c
OfCategory(rs, c) ==
  LET Is(r) == r.category = c
  IN SelectSeq(rs, Is)

RECURSIVE ValuesDoubleSum(_)
\* the values of a breakdown added up in doubles, in the order of its keys
ValuesDoubleSum(b) ==
  IF b = <<>> THEN Zero
  ELSE NumAdd(ValuesDoubleSum(SubSeq(b, 1, Len(b) - 1)), b[Len(b)].amount)

RECURSIVE ValuesExactSum(_)
\* the values of a breakdown added up exactly
ValuesExactSum(b) ==
  IF b = <<>> THEN Zero
  ELSE LET rest == ValuesExactSum(SubSeq(b, 1, Len(b) - 1))
       IN Carry([i \in 1..Limbs |-> rest[i] + b[Len(b)].amount[i]])

\* the breakdown b has one key for every category that rs has records of, and no
\* other, each with the sum of the amounts of its records, which is not zero
BreakdownOf(b, rs) ==
  /\ \A k, l \in DOMAIN b : b[k].category = b[l].category => k = l
  /\ {b[k].category : k \in DOMAIN b} = {rs[i].category : i \in DOMAIN rs}
  /\ \A k \in DOMAIN b :
       /\ b[k].amount = DoubleSum(OfCategory(rs, b[k].category))
       /\ b[k].amount # Zero

\* C15 as stated: the breakdown maps each category to the sum of the amounts of
\* its records, categories without spend are absent, and its values add up to
\* the total amount.
C15_Original ==
  DashboardMounted(activeTab, receipts) =>
    /\ BreakdownOf(stats.categoryBreakdown, receipts)
    /\ ValuesDoubleSum(stats.categoryBreakdown) = stats.totalAmount

\* C15, amended: the breakdown maps each category to the sum of the amounts of
\* its records, categories without spend are absent, and its values, added up
\* exactly or as doubles in key order, differ from the total amount by at most
\* the record count times 2^-51 of the total.
C15_BreakdownWithinTolerance ==
  DashboardMounted(activeTab, receipts) =>
    /\ BreakdownOf(stats.categoryBreakdown, receipts)
    /\ Within(ValuesExactSum(stats.categoryBreakdown), stats.totalAmount,
              RelTolerance(stats.totalAmount, Len(receipts), 51))
    /\ Within(ValuesDoubleSum(stats.categoryBreakdown), stats.totalAmount,
              RelTolerance(stats.totalAmount, Len(receipts), 51))

\* four records in fewer categories, whose per-category sums do not add up, in
\* doubles, to the total
C15_Witness ==
  /\ DashboardMounted(activeTab, receipts) /\ Len(receipts) = 4
  /\ Len(stats.categoryBreakdown) < 4
  /\ ValuesDoubleSum(stats.categoryBreakdown) # stats.totalAmount

\* C16: no two records of the record store have the same identifier.
C16_UniqueIds ==
  \A i, j \in DOMAIN receipts : i # j => receipts[i].id # receipts[j].id

\* C17: every submitted batch is processed in the end: once n files are stored
\* or submitted, a state follows in which n records are stored and the
\* processing flag is down; no "Processing failed" notice is ever raised, and
\* every step that ends a batch lowers the flag.
C17_ProcessingCompletes ==
  /\ \A n \in 1..MaxReceipts :
       (Len(receipts) + InFlight >= n) ~> (Len(receipts) >= n /\ ~isProcessing)
  /\ [](\A i \in DOMAIN toasts : toasts[i].title # "Processing failed")
  /\ [][Len(pending') < Len(pending) => ~isProcessing']_vars

\* a batch of two files has been processed
C17_Witness ==
  /\ Len(receipts) = 2 /\ pending = <<>> /\ ~isProcessing
  /\ toasts = <<[title |-> "Files processed successfully!", about |-> <<>>]>>

\* C18: at most one batch waits on its timer at any time and the processing flag
\* is up in every state in which one waits; while the flag is up no step stages
\* a file or submits a batch, and a step that lowers the flag leaves no batch
\* waiting.
C18_OneBatchInFlight ==
  /\ [](Len(pending) <= 1 /\ (pending # <<>> => isProcessing))
  /\ [][isProcessing => (Len(files') <= Len(files) /\ Len(pending') <= Len(pending))]_vars
  /\ [][(isProcessing /\ ~isProcessing') => pending' = <<>>]_vars

\* a second batch waits on its timer, the first one stored, the upload tab shown
C18_Witness ==
  /\ isProcessing /\ Len(pending) = 1 /\ Len(receipts) = 1
  /\ UploadMounted(activeTab)

\* C19: the record store starts empty; a step that raises the processing flag
\* hands the staged list, which is not empty, to processing as the newest batch
\* and empties the staged list; a step that ends the oldest batch of k files
\* keeps the stored records and appends exactly k records after them, the i-th
\* carrying the name and the MIME type of the i-th file; the batches change by
\* these two steps only and the record store by the second only.
C19_BatchAppended ==
  /\ receipts = <<>>
  /\ [][(~isProcessing /\ isProcessing') =>
          (files # <<>> /\ pending' = Append(pending, files) /\ files' = <<>>)]_vars
  /\ [][Len(pending') < Len(pending) =>
          LET batch == Head(pending)
              k     == Len(batch)
              n     == Len(receipts)
          IN /\ pending' = Tail(pending)
             /\ Len(receipts') = n + k
             /\ SubSeq(receipts', 1, n) = receipts
             /\ \A i \in 1..k : /\ receipts'[n + i].fileName = batch[i].name
                                 /\ receipts'[n + i].fileType = batch[i].type]_vars
  /\ [][Len(pending') > Len(pending) => (~isProcessing /\ isProcessing')]_vars
  /\ [][receipts' # receipts => Len(pending') < Len(pending)]_vars
  /\ [][Len(pending') # Len(pending) \/ pending' = pending]_vars

\* a batch of two files of different names and types has been stored in order
C19_Witness ==
  /\ Len(receipts) = 2 /\ pending = <<>> /\ ~isProcessing
  /\ receipts[1].fileName = FPng.name /\ receipts[1].fileType = FPng.type
  /\ receipts[2].fileName = FTxt.name /\ receipts[2].fileType = FTxt.type
  /\ toasts # <<>>

====
